---------------------------- MODULE Spec2Model ----------------------------
(***************************************************************************)
(* Entity update/merge protocol of aioairzone_cloud: Device (device.py)    *)
(* and AirQuality (air_quality.py).                                        *)
(*                                                                         *)
(* JSON values are written as their text ("7", "'8'", "true", "null",      *)
(* "[2,3]", "{celsius:21.5}"); the tables below decode them.  A Python     *)
(* optional (X | None) is a set with at most one element: None is {} and   *)
(* the value x is {x}.  A call returns [self, raised]: the object as the   *)
(* call left it and the exception it surfaced ("none" when it returned).   *)
(***************************************************************************)
EXTENDS Integers, Sequences, FiniteSets, TLC

VARIABLES dev,      \* the Device object
          aq,       \* the AirQuality object
          raised,   \* exception surfaced by the last call, "none" if it returned
          call,     \* the last call: [op, target, data, arg]
          ncalls,   \* calls made so far
          nkeys,    \* envelope keys delivered so far
          result    \* the mapping the last call returned, if it was data()

vars == <<dev, aq, raised, call, ncalls, nkeys, result>>

\* Bounds of the exploration.
MaxCalls == 2
MaxKeys == 2
MaxStack == 3

None == {}
Some(x) == {x}
Val(opt) == CHOOSE x \in opt : TRUE

EmptyDict == [k \in {} |-> "null"]

(***************************************************************************)
(* JSON decoding tables.                                                   *)
(***************************************************************************)
\* JSON integer literals.
IntLiteral == ("1" :> 1) @@ ("2" :> 2) @@ ("3" :> 3) @@ ("4" :> 4) @@ ("5" :> 5)
              @@ ("6" :> 6) @@ ("7" :> 7) @@ ("9" :> 9) @@ ("99" :> 99)
              @@ ("1013" :> 1013)
\* JSON strings holding a decimal integer.
NumericString == ("'1'" :> 1) @@ ("'2'" :> 2) @@ ("'8'" :> 8)
\* JSON number literals as tenths (215 is 21.5).
FloatLiteral == ("21.5" :> 215) @@ ("7" :> 70)
\* JSON string literals and their text.
StrLiteral == ("'junk'" :> "junk") @@ ("'good'" :> "good") @@ ("'80'" :> "80")
              @@ ("'1.2'" :> "1.2") @@ ("'d9'" :> "d9") @@ ("'a1'" :> "a1")
              @@ ("'d1'" :> "d1") @@ ("'n9'" :> "n9") @@ ("'E1'" :> "E1")
              @@ ("'W1'" :> "W1") @@ ("'1'" :> "1") @@ ("'2'" :> "2")
              @@ ("'8'" :> "8")
\* JSON arrays and their items.
ListItems == ("[]" :> <<>>) @@ ("[2]" :> <<"2">>) @@ ("[2,3]" :> <<"2", "3">>)
             @@ ("[99]" :> <<"99">>) @@ ("['E1']" :> <<"'E1'">>)
             @@ ("['W1']" :> <<"'W1'">>)
\* JSON objects and their members.
ObjectFields ==
    ("{}" :> EmptyDict)
    @@ ("{celsius:21.5}" :> ("API_AQ_TEMP_CELSIUS" :> "21.5"))
    @@ ("{celsius:'junk'}" :> ("API_AQ_TEMP_CELSIUS" :> "'junk'"))
    @@ ("{systemNumber:'1',zoneNumber:'2'}" :>
            (("API_SYSTEM_NUMBER" :> "'1'") @@ ("API_ZONE_NUMBER" :> "'2'")))
    @@ ("{systemNumber:'1'}" :> ("API_SYSTEM_NUMBER" :> "'1'"))
    @@ ("{zoneNumber:'2'}" :> ("API_ZONE_NUMBER" :> "'2'"))
    @@ ("{systemNumber:3,zoneNumber:4}" :>
            (("API_SYSTEM_NUMBER" :> "3") @@ ("API_ZONE_NUMBER" :> "4")))
    @@ ("{systemNumber:3}" :> ("API_SYSTEM_NUMBER" :> "3"))
    @@ ("{zoneNumber:4}" :> ("API_ZONE_NUMBER" :> "4"))
    @@ ("{systemNumber:9,zoneNumber:9}" :>
            (("API_SYSTEM_NUMBER" :> "9") @@ ("API_ZONE_NUMBER" :> "9")))

\* dict.get(key): the value, or None (JSON null) when the key is absent.
get(data, key) == IF key \in DOMAIN data THEN data[key] ELSE "null"

\* `value or {}` on a decoded JSON value that is null or an object.
OrEmptyDict(raw) == IF raw \in DOMAIN ObjectFields THEN ObjectFields[raw] ELSE EmptyDict

(***************************************************************************)
(* common.py: the field parsers and the OperationMode enumeration.         *)
(***************************************************************************)
parse_bool(raw) ==
    CASE raw = "true" -> Some(TRUE)
      [] raw = "false" -> Some(FALSE)
      [] OTHER -> None

parse_int(raw) ==
    CASE raw \in DOMAIN IntLiteral -> Some(IntLiteral[raw])
      [] raw \in DOMAIN NumericString -> Some(NumericString[raw])
      [] OTHER -> None

parse_float(raw) ==
    CASE raw \in DOMAIN FloatLiteral -> Some(FloatLiteral[raw])
      [] OTHER -> None

parse_str(raw) ==
    CASE raw \in DOMAIN StrLiteral -> Some(StrLiteral[raw])
      [] OTHER -> None

\* The members of the OperationMode enumeration.
OperationModes == {0, 1, 2, 3, 4, 5}

\* OperationMode(value): the member, or ValueError for an unrecognized code.
OperationMode(raw) ==
    IF raw \in DOMAIN IntLiteral /\ IntLiteral[raw] \in OperationModes
    THEN [value |-> Some(IntLiteral[raw]), raised |-> "none"]
    ELSE [value |-> None, raised |-> "ValueError"]

\* int(value) of Python on a decoded JSON value.
int(raw) ==
    CASE raw \in DOMAIN IntLiteral -> [value |-> Some(IntLiteral[raw]), raised |-> "none"]
      [] raw \in DOMAIN NumericString -> [value |-> Some(NumericString[raw]), raised |-> "none"]
      [] raw = "null" -> [value |-> None, raised |-> "TypeError"]
      [] OTHER -> [value |-> None, raised |-> "ValueError"]

\* str(value) of Python on a decoded JSON value.
str(raw) ==
    CASE raw \in DOMAIN StrLiteral -> StrLiteral[raw]
      [] OTHER -> raw

(***************************************************************************)
(* Results of a call and sequencing of statements.                         *)
(***************************************************************************)
Ok(self) == [self |-> self, raised |-> "none"]
Raise(self, exc) == [self |-> self, raised |-> exc]

\* Run F on the object unless an earlier statement already raised.
Then(r, F(_)) == IF r.raised # "none" THEN r ELSE F(r.self)

(***************************************************************************)
(* Construction.                                                           *)
(***************************************************************************)
\* The attributes Device.__init__ assigns before it reads the payload.
DeviceDefaults(inst_id, ws_id) ==
    [air_quality |-> None, auto_mode |-> None, aq_active |-> None,
     aq_pm_1 |-> None, aq_pm_2p5 |-> None, aq_pm_10 |-> None, aq_co2 |-> None,
     aq_tvoc |-> None, aq_humidity |-> None, aq_temp |-> None,
     aq_present |-> None, aq_quality |-> None, aq_score |-> None,
     double_set_point |-> None, dual_sp_conf |-> None, errors |-> <<>>,
     id |-> "", installation_id |-> inst_id, mode |-> None, modes |-> <<>>,
     name |-> <<"Device">>, simulator_mode |-> None, warnings |-> <<>>,
     webserver_id |-> ws_id, ws_connected |-> TRUE, is_connected |-> TRUE]

\* Device.__init__: KeyError without the device id.
Device_init(inst_id, ws_id, device_data) ==
    LET self == DeviceDefaults(inst_id, ws_id)
        is_connected == parse_bool(get(device_data, "API_IS_CONNECTED"))
    IN  IF "API_DEVICE_ID" \notin DOMAIN device_data
        THEN Raise(self, "KeyError")
        ELSE Ok([self EXCEPT !.id = str(device_data["API_DEVICE_ID"]),
                              !.is_connected = IF is_connected # None
                                               THEN Val(is_connected) ELSE TRUE])

\* sub_data with the probe of the config sub-object left out.
sub_data_skipping_config(device_data) ==
    LET meta == OrEmptyDict(get(device_data, "API_META"))
    IN  IF "API_META" \in DOMAIN device_data /\ "API_SYSTEM_NUMBER" \in DOMAIN meta
        THEN meta
        ELSE device_data

\* Device.sub_data: where the system and zone numbers are read from.
sub_data(device_data) ==
    LET meta == OrEmptyDict(get(device_data, "API_META"))
        config == OrEmptyDict(get(device_data, "API_CONFIG"))
    IN  IF "API_META" \in DOMAIN device_data /\ "API_SYSTEM_NUMBER" \in DOMAIN meta
        THEN meta
        ELSE IF "API_CONFIG" \in DOMAIN device_data
                /\ "API_SYSTEM_NUMBER" \in DOMAIN config
        THEN config
        ELSE device_data

\* The attributes AirQuality.__init__ adds to the Device's.
AirQualityDefaults(device) ==
    [f \in DOMAIN device \cup {"aq_sensor_fw", "systems", "zones", "aq_vent_active",
                               "aq_pressure", "system_number", "zone_number"} |->
        CASE f = "aq_sensor_fw" -> None
          [] f = "systems" -> EmptyDict
          [] f = "zones" -> EmptyDict
          [] f = "aq_vent_active" -> None
          [] f = "aq_pressure" -> None
          [] f = "system_number" -> None
          [] f = "zone_number" -> None
          [] f \in {"aq_pm_1", "aq_pm_2p5", "aq_pm_10", "aq_co2", "aq_tvoc",
                    "aq_humidity", "aq_temp", "aq_present", "aq_quality",
                    "aq_score"} -> None
          [] OTHER -> device[f]]

\* sub_data[key] followed by int(): KeyError, TypeError or ValueError.
int_item(sub, key) ==
    IF key \notin DOMAIN sub THEN [value |-> None, raised |-> "KeyError"]
    ELSE int(sub[key])

\* AirQuality.__init__.
AirQuality_init(inst_id, ws_id, device_data) ==
    LET base == Device_init(inst_id, ws_id, device_data)
        self == AirQualityDefaults(base.self)
        sub == sub_data(device_data)
        system_number == int_item(sub, "API_SYSTEM_NUMBER")
        zone_number == int_item(sub, "API_ZONE_NUMBER")
        device_name == parse_str(get(device_data, "API_NAME"))
    IN  IF base.raised # "none" THEN base
        ELSE IF system_number.raised # "none" THEN Raise(self, system_number.raised)
        ELSE IF zone_number.raised # "none"
        THEN Raise([self EXCEPT !.system_number = system_number.value],
                   zone_number.raised)
        ELSE Ok([self EXCEPT
                   !.system_number = system_number.value,
                   !.zone_number = zone_number.value,
                   !.name = IF device_name # None
                            THEN <<Val(device_name)>>
                            ELSE <<"Air Quality ", Val(system_number.value), ":",
                                   Val(zone_number.value)>>])

(***************************************************************************)
(* Device.update_data, statement by statement.                             *)
(***************************************************************************)
\* value = parse(data.get(key)); if value is not None: self.attr = value
assign_parsed(self, attr, parsed) ==
    IF parsed # None THEN [self EXCEPT ![attr] = parsed] ELSE self

\* The same for an attribute that is never None (is_connected, ws_connected).
assign_flag(self, attr, parsed) ==
    IF parsed # None THEN [self EXCEPT ![attr] = Val(parsed)] ELSE self

\* is_connected, with the id also re-read from the envelope.
upd_is_connected_rebinding_id(self, data) ==
    LET s == assign_flag(self, "is_connected",
                         parse_bool(get(data, "API_IS_CONNECTED")))
    IN  Ok(IF "API_DEVICE_ID" \in DOMAIN data
           THEN [s EXCEPT !.id = str(data["API_DEVICE_ID"])] ELSE s)

upd_is_connected(self, data) ==
    Ok(assign_flag(self, "is_connected", parse_bool(get(data, "API_IS_CONNECTED"))))

upd_ws_connected(self, data) ==
    Ok(assign_flag(self, "ws_connected", parse_bool(get(data, "API_WS_CONNECTED"))))

upd_aq_active(self, data) ==
    Ok(assign_parsed(self, "aq_active", parse_bool(get(data, "API_AQ_ACTIVE"))))

upd_aq_pm_1(self, data) ==
    Ok(assign_parsed(self, "aq_pm_1", parse_int(get(data, "API_AQ_PM_1"))))

upd_aq_pm_2p5(self, data) ==
    Ok(assign_parsed(self, "aq_pm_2p5", parse_int(get(data, "API_AQ_PM_2P5"))))

upd_aq_pm_10(self, data) ==
    Ok(assign_parsed(self, "aq_pm_10", parse_int(get(data, "API_AQ_PM_10"))))

upd_aq_co2(self, data) ==
    Ok(assign_parsed(self, "aq_co2", parse_int(get(data, "API_AQ_CO2"))))

upd_aq_tvoc(self, data) ==
    Ok(assign_parsed(self, "aq_tvoc", parse_int(get(data, "API_AQ_TVOC"))))

upd_aq_humidity(self, data) ==
    Ok(assign_parsed(self, "aq_humidity", parse_int(get(data, "API_AQ_HUMIDITY"))))

\* aq_temp.get(...) raises AttributeError on a value that is no object; the
\* parsed Celsius value is assigned even when it is None.
upd_aq_temp(self, data) ==
    LET aq_temp == get(data, "API_AQ_TEMP")
    IN  IF aq_temp = "null" THEN Ok(self)
        ELSE IF aq_temp \notin DOMAIN ObjectFields THEN Raise(self, "AttributeError")
        ELSE Ok([self EXCEPT !.aq_temp =
                    parse_float(get(ObjectFields[aq_temp], "API_AQ_TEMP_CELSIUS"))])

upd_aq_present(self, data) ==
    Ok(assign_parsed(self, "aq_present", parse_bool(get(data, "API_AQ_PRESENT"))))

upd_aq_quality(self, data) ==
    Ok(assign_parsed(self, "aq_quality", parse_str(get(data, "API_AQ_QUALITY"))))

upd_aq_score(self, data) ==
    Ok(assign_parsed(self, "aq_score", parse_str(get(data, "API_AQ_SCORE"))))

\* OperationMode(auto_mode) raises ValueError on an unrecognized code.
upd_auto_mode(self, data) ==
    LET auto_mode == get(data, "API_AUTO_MODE")
        m == OperationMode(auto_mode)
    IN  IF auto_mode = "null" THEN Ok(self)
        ELSE IF m.raised # "none" THEN Raise(self, m.raised)
        ELSE Ok([self EXCEPT !.auto_mode = m.value])

upd_double_set_point(self, data) ==
    Ok(assign_parsed(self, "double_set_point",
                     parse_bool(get(data, "API_DOUBLE_SET_POINT"))))

upd_dual_sp_conf(self, data) ==
    Ok(assign_parsed(self, "dual_sp_conf", parse_bool(get(data, "API_DUAL_SP_CONF"))))

\* The list a key's array is copied into, item by item, starting from `start`.
copy_items(start, raw) == start \o ListItems[raw]

\* errors, with the reset of the list before the copy left out.
upd_errors_appending(self, data) ==
    LET errors == get(data, "API_ERRORS")
    IN  IF errors = "null" THEN Ok(self)
        ELSE Ok([self EXCEPT !.errors = copy_items(self.errors, errors)])

upd_errors(self, data) ==
    LET errors == get(data, "API_ERRORS")
    IN  IF errors = "null" THEN Ok(self)
        ELSE Ok([self EXCEPT !.errors = copy_items(<<>>, errors)])

\* The current mode is written without the membership check of set_mode.
upd_mode(self, data) ==
    LET mode == get(data, "API_MODE")
        m == OperationMode(mode)
    IN  IF mode = "null" THEN Ok(self)
        ELSE IF m.raised # "none" THEN Raise(self, m.raised)
        ELSE Ok([self EXCEPT !.mode = m.value])

\* [OperationMode(mode) for mode in mode_avail]: the first failure, if any.
RECURSIVE convert_modes(_, _)
convert_modes(items, done) ==
    IF items = <<>> THEN [value |-> done, raised |-> "none"]
    ELSE LET m == OperationMode(Head(items))
         IN  IF m.raised # "none" THEN [value |-> done, raised |-> m.raised]
             ELSE convert_modes(Tail(items), Append(done, Val(m.value)))

\* modes, with the test for an empty list left out.
upd_modes_also_when_empty(self, data) ==
    LET mode_avail == get(data, "API_MODE_AVAIL")
        modes == convert_modes(ListItems[mode_avail], <<>>)
    IN  IF mode_avail = "null" THEN Ok(self)
        ELSE IF modes.raised # "none" THEN Raise(self, modes.raised)
        ELSE Ok([self EXCEPT !.modes = modes.value])

\* modes is replaced only by a list that is not empty.
upd_modes(self, data) ==
    LET mode_avail == get(data, "API_MODE_AVAIL")
        modes == convert_modes(ListItems[mode_avail], <<>>)
    IN  IF mode_avail = "null" \/ Len(ListItems[mode_avail]) = 0 THEN Ok(self)
        ELSE IF modes.raised # "none" THEN Raise(self, modes.raised)
        ELSE Ok([self EXCEPT !.modes = modes.value])

upd_simulator_mode(self, data) ==
    Ok(assign_parsed(self, "simulator_mode",
                     parse_bool(get(data, "API_SIMULATOR_MODE"))))

upd_warnings(self, data) ==
    LET warnings == get(data, "API_WARNINGS")
    IN  IF warnings = "null" THEN Ok(self)
        ELSE Ok([self EXCEPT !.warnings = copy_items(<<>>, warnings)])

\* Device.update_data: the statements in source order; an exception ends it.
Device_update_data(self, data) ==
    LET s01 == upd_is_connected(self, data)
        s02 == Then(s01, LAMBDA s : upd_ws_connected(s, data))
        s03 == Then(s02, LAMBDA s : upd_aq_active(s, data))
        s04 == Then(s03, LAMBDA s : upd_aq_pm_1(s, data))
        s05 == Then(s04, LAMBDA s : upd_aq_pm_2p5(s, data))
        s06 == Then(s05, LAMBDA s : upd_aq_pm_10(s, data))
        s07 == Then(s06, LAMBDA s : upd_aq_co2(s, data))
        s08 == Then(s07, LAMBDA s : upd_aq_tvoc(s, data))
        s09 == Then(s08, LAMBDA s : upd_aq_humidity(s, data))
        s10 == Then(s09, LAMBDA s : upd_aq_temp(s, data))
        s11 == Then(s10, LAMBDA s : upd_aq_present(s, data))
        s12 == Then(s11, LAMBDA s : upd_aq_quality(s, data))
        s13 == Then(s12, LAMBDA s : upd_aq_score(s, data))
        s14 == Then(s13, LAMBDA s : upd_auto_mode(s, data))
        s15 == Then(s14, LAMBDA s : upd_double_set_point(s, data))
        s16 == Then(s15, LAMBDA s : upd_dual_sp_conf(s, data))
        s17 == Then(s16, LAMBDA s : upd_errors(s, data))
        s18 == Then(s17, LAMBDA s : upd_mode(s, data))
        s19 == Then(s18, LAMBDA s : upd_modes(s, data))
        s20 == Then(s19, LAMBDA s : upd_simulator_mode(s, data))
    IN  Then(s20, LAMBDA s : upd_warnings(s, data))

(***************************************************************************)
(* AirQuality.update_data.                                                 *)
(***************************************************************************)
upd_aq_vent_active(self, data) ==
    Ok(assign_parsed(self, "aq_vent_active",
                     parse_bool(get(data, "API_AQ_VENT_ACTIVE"))))

\* The pressure is stored as received, unparsed.
upd_aq_pressure(self, data) ==
    LET aq_pressure == get(data, "API_AQ_PRESSURE")
    IN  IF aq_pressure = "null" THEN Ok(self)
        ELSE Ok([self EXCEPT !.aq_pressure = Some(aq_pressure)])

upd_aq_sensor_fw(self, data) ==
    Ok(assign_parsed(self, "aq_sensor_fw", parse_str(get(data, "API_AQ_SENSOR_FW"))))

\* AirQuality.update_data: Device.update_data, then its own statements.
AirQuality_update_data(self, data) ==
    LET s00 == Device_update_data(self, data)
        s01 == Then(s00, LAMBDA s : upd_aq_vent_active(s, data))
        s02 == Then(s01, LAMBDA s : upd_aq_pm_1(s, data))
        s03 == Then(s02, LAMBDA s : upd_aq_pm_2p5(s, data))
        s04 == Then(s03, LAMBDA s : upd_aq_pm_10(s, data))
        s05 == Then(s04, LAMBDA s : upd_aq_co2(s, data))
        s06 == Then(s05, LAMBDA s : upd_aq_tvoc(s, data))
        s07 == Then(s06, LAMBDA s : upd_aq_humidity(s, data))
        s08 == Then(s07, LAMBDA s : upd_aq_temp(s, data))
        s09 == Then(s08, LAMBDA s : upd_aq_pressure(s, data))
        s10 == Then(s09, LAMBDA s : upd_aq_present(s, data))
        s11 == Then(s10, LAMBDA s : upd_aq_quality(s, data))
        s12 == Then(s11, LAMBDA s : upd_aq_score(s, data))
    IN  Then(s12, LAMBDA s : upd_aq_sensor_fw(s, data))

(***************************************************************************)
(* Setters and associations.                                               *)
(***************************************************************************)
\* Device.set_air_quality: the reference to the AirQuality object.
set_air_quality(self, air_quality) == Ok([self EXCEPT !.air_quality = Some(air_quality)])

\* set_mode with the membership check left out.
set_mode_unguarded(self, mode) ==
    LET _mode == OperationMode(mode)
    IN  IF _mode.raised # "none" THEN Raise(self, _mode.raised)
        ELSE Ok([self EXCEPT !.mode = _mode.value])

\* Device.set_mode: assigns only a member of modes, logs otherwise.
set_mode(self, mode) ==
    LET _mode == OperationMode(mode)
    IN  IF _mode.raised # "none" THEN Raise(self, _mode.raised)
        ELSE IF \E i \in 1..Len(self.modes) : self.modes[i] = Val(_mode.value)
        THEN Ok([self EXCEPT !.mode = _mode.value])
        ELSE Ok(self)

\* AirQuality.set_param: an empty hook.
set_param(self, param, data) == Ok(self)

\* The id a System or Zone object answers to get_id().
get_id == ("sysA" :> "s1") @@ ("sysB" :> "s1") @@ ("zoneA" :> "z1")

\* dict[key] = value
put(dict, key, value) == [k \in DOMAIN dict \cup {key} |-> IF k = key THEN value ELSE dict[k]]

\* AirQuality.add_system: kept only when its id is new.
add_system(self, system) ==
    IF get_id[system] \notin DOMAIN self.systems
    THEN Ok([self EXCEPT !.systems = put(self.systems, get_id[system], system)])
    ELSE Ok(self)

\* AirQuality.add_zone: kept only when its id is new.
add_zone(self, zone) ==
    IF get_id[zone] \notin DOMAIN self.zones
    THEN Ok([self EXCEPT !.zones = put(self.zones, get_id[zone], zone)])
    ELSE Ok(self)

(***************************************************************************)
(* Accessors.  `attached` is the object self.air_quality refers to.        *)
(***************************************************************************)
Returned(value) == [value |-> value, raised |-> "none"]

\* get_aq_*: the attached AirQuality's attribute when there is one.
get_aq(self, attached, attr) ==
    IF self.air_quality # None THEN Returned(attached[attr]) ELSE Returned(self[attr])

get_aq_active(self, attached) == get_aq(self, attached, "aq_active")
get_aq_quality(self, attached) == get_aq(self, attached, "aq_quality")
get_aq_score(self, attached) == get_aq(self, attached, "aq_score")
get_aq_pm_1(self, attached) == get_aq(self, attached, "aq_pm_1")
get_aq_pm_2p5(self, attached) == get_aq(self, attached, "aq_pm_2p5")
get_aq_pm_10(self, attached) == get_aq(self, attached, "aq_pm_10")
get_aq_co2(self, attached) == get_aq(self, attached, "aq_co2")
get_aq_tvoc(self, attached) == get_aq(self, attached, "aq_tvoc")
get_aq_temp(self, attached) == get_aq(self, attached, "aq_temp")
get_aq_humidity(self, attached) == get_aq(self, attached, "aq_humidity")
get_aq_present(self, attached) == get_aq(self, attached, "aq_present")

\* Device.get_aq_status calls itself before anything else: each call opens a
\* frame until the interpreter's stack (MaxStack frames here) is exhausted.
RECURSIVE get_aq_status_frame(_, _)
get_aq_status_frame(self, depth) ==
    IF depth > MaxStack THEN [value |-> None, raised |-> "RecursionError"]
    ELSE LET aq_status == get_aq_status_frame(self, depth + 1)
         IN  IF aq_status.raised # "none" THEN aq_status
             ELSE IF aq_status.value # None
             THEN [value |-> None, raised |-> "NameError"]
             ELSE Returned(None)

get_aq_status(self) == get_aq_status_frame(self, 1)

\* Availability read from the device's own connection alone.
get_available_ignoring_ws(self) == self.is_connected

get_available(self) == self.is_connected /\ self.ws_connected

get_problems(self) == Len(self.errors) > 0 \/ Len(self.warnings) > 0

get_double_set_point(self) ==
    IF self.double_set_point # None THEN Val(self.double_set_point) ELSE FALSE

get_modes(self) == IF Len(self.modes) > 0 THEN Some(self.modes) ELSE None

get_aq_vent_active(self, attached) == get_aq(self, attached, "aq_vent_active")
get_aq_pressure(self, attached) == get_aq(self, attached, "aq_pressure")

(***************************************************************************)
(* data(): the mapping from the output keys AZD_... to the current values. *)
(***************************************************************************)
\* The quality levels and the names data() gives them.
API_AQ_QUALITY_LEVELS == ("good" :> "Good") @@ ("regular" :> "Regular") @@ ("bad" :> "Bad")

\* The assignment without its test: an absent value is stored as well.
put_present_or_absent(data, key, value) ==
    put(data, key, value)

\* value = self.get_x(); if value is not None: data[key] = value
put_present(data, key, value) ==
    IF value # None THEN put(data, key, Val(value)) ELSE data

\* The loop over API_AQ_QUALITY_LEVELS: a level of the table is stored under
\* its name, any other level stores nothing.
put_quality(data, aq_quality) ==
    IF aq_quality # None /\ Val(aq_quality) \in DOMAIN API_AQ_QUALITY_LEVELS
    THEN put(data, "AZD_AQ_QUALITY", API_AQ_QUALITY_LEVELS[Val(aq_quality)])
    ELSE data

\* if len(items) > 0: data[key] = items
put_nonempty(data, key, items) ==
    IF Len(items) > 0 THEN put(data, key, items) ELSE data

\* The entries Device.data() always stores.
data_unconditional(self) ==
    ("AZD_AVAILABLE" :> get_available(self))
    @@ ("AZD_DOUBLE_SET_POINT" :> get_double_set_point(self))
    @@ ("AZD_ID" :> self.id)
    @@ ("AZD_INSTALLATION" :> self.installation_id)
    @@ ("AZD_IS_CONNECTED" :> self.is_connected)
    @@ ("AZD_NAME" :> self.name)
    @@ ("AZD_PROBLEMS" :> get_problems(self))
    @@ ("AZD_WEBSERVER" :> self.webserver_id)
    @@ ("AZD_WS_CONNECTED" :> self.ws_connected)

\* Device.data().
Device_data(self, attached) ==
    LET d00 == data_unconditional(self)
        d01 == put_present(d00, "AZD_AQ_ACTIVE", get_aq_active(self, attached).value)
        d02 == put_quality(d01, get_aq_quality(self, attached).value)
        d03 == put_present(d02, "AZD_AQ_SCORE", get_aq_score(self, attached).value)
        d04 == put_present(d03, "AZD_AQ_PM_1", get_aq_pm_1(self, attached).value)
        d05 == put_present(d04, "AZD_AQ_PM_2P5", get_aq_pm_2p5(self, attached).value)
        d06 == put_present(d05, "AZD_AQ_PM_10", get_aq_pm_10(self, attached).value)
        d07 == put_present(d06, "AZD_AQ_CO2", get_aq_co2(self, attached).value)
        d08 == put_present(d07, "AZD_AQ_TVOC", get_aq_tvoc(self, attached).value)
        d09 == put_present(d08, "AZD_AQ_HUMIDITY", get_aq_humidity(self, attached).value)
        d10 == put_present(d09, "AZD_AQ_TEMP", get_aq_temp(self, attached).value)
        d11 == put_present(d10, "AZD_AQ_PRESENT", get_aq_present(self, attached).value)
        d12 == put_present(d11, "AZD_DUAL_SP_CONF", self.dual_sp_conf)
        d13 == put_nonempty(d12, "AZD_ERRORS", self.errors)
        d14 == put_present(d13, "AZD_MODE", self.mode)
        d15 == put_present(d14, "AZD_MODE_AUTO", self.auto_mode)
        d16 == put_present(d15, "AZD_MODES", get_modes(self))
        d17 == put_present(d16, "AZD_SIMULATOR_MODE", self.simulator_mode)
    IN  put_nonempty(d17, "AZD_WARNINGS", self.warnings)

\* AirQuality.data(): Device.data() and the entries of the sensor.
AirQuality_data(self, attached) ==
    LET d00 == Device_data(self, attached)
        d01 == put_present(d00, "AZD_AQ_VENT_ACTIVE",
                           get_aq_vent_active(self, attached).value)
        d02 == put_quality(d01, get_aq_quality(self, attached).value)
        d03 == put_present(d02, "AZD_AQ_SCORE", get_aq_score(self, attached).value)
        d04 == put_present(d03, "AZD_AQ_PM_1", get_aq_pm_1(self, attached).value)
        d05 == put_present(d04, "AZD_AQ_PM_2P5", get_aq_pm_2p5(self, attached).value)
        d06 == put_present(d05, "AZD_AQ_PM_10", get_aq_pm_10(self, attached).value)
        d07 == put_present(d06, "AZD_AQ_CO2", get_aq_co2(self, attached).value)
        d08 == put_present(d07, "AZD_AQ_TVOC", get_aq_tvoc(self, attached).value)
        d09 == put_present(d08, "AZD_AQ_HUMIDITY", get_aq_humidity(self, attached).value)
        d10 == put_present(d09, "AZD_AQ_TEMP", get_aq_temp(self, attached).value)
        d11 == put_present(d10, "AZD_AQ_PRESSURE", get_aq_pressure(self, attached).value)
        d12 == put_present(d11, "AZD_AQ_PRESENT", get_aq_present(self, attached).value)
        d13 == put(d12, "AZD_SYSTEM", self.system_number)
        d14 == put(d13, "AZD_ZONE", self.zone_number)
    IN  put_present(d14, "AZD_FIRMWARE", self.aq_sensor_fw)

(***************************************************************************)
(* The inputs: update envelopes, setter arguments, construction payloads.  *)
(***************************************************************************)
BoolRaw == {"true", "false", "'junk'"}
IntRaw == {"7", "'8'", "'junk'"}

\* The keys an envelope may carry, in a fixed order.
ApiKeys ==
    <<"API_IS_CONNECTED", "API_WS_CONNECTED", "API_AQ_ACTIVE", "API_AQ_PM_1",
      "API_AQ_PM_2P5", "API_AQ_PM_10", "API_AQ_CO2", "API_AQ_TVOC",
      "API_AQ_HUMIDITY", "API_AQ_TEMP", "API_AQ_PRESENT", "API_AQ_QUALITY",
      "API_AQ_SCORE", "API_AUTO_MODE", "API_DOUBLE_SET_POINT", "API_DUAL_SP_CONF",
      "API_ERRORS", "API_MODE", "API_MODE_AVAIL", "API_SIMULATOR_MODE",
      "API_WARNINGS", "API_AQ_VENT_ACTIVE", "API_AQ_PRESSURE", "API_AQ_SENSOR_FW",
      "API_DEVICE_ID", "API_SYSTEM_NUMBER", "API_ZONE_NUMBER", "API_NAME",
      "API_META">>

\* The values each key is delivered with: well-formed ones and corrupt ones.
RawValues(key) ==
    CASE key = "API_IS_CONNECTED" -> BoolRaw \cup {"null"}
      [] key \in {"API_WS_CONNECTED", "API_AQ_ACTIVE", "API_AQ_PRESENT",
                  "API_DOUBLE_SET_POINT", "API_DUAL_SP_CONF", "API_SIMULATOR_MODE",
                  "API_AQ_VENT_ACTIVE"} -> BoolRaw
      [] key \in {"API_AQ_PM_1", "API_AQ_PM_2P5", "API_AQ_PM_10", "API_AQ_CO2",
                  "API_AQ_TVOC", "API_AQ_HUMIDITY"} -> IntRaw
      [] key = "API_AQ_TEMP" ->
            {"{celsius:21.5}", "{celsius:'junk'}", "{}", "7", "null"}
      [] key = "API_AQ_QUALITY" -> {"'good'", "'junk'", "7"}
      [] key = "API_AQ_SCORE" -> {"'80'", "true"}
      [] key = "API_AUTO_MODE" -> {"2", "99"}
      [] key = "API_ERRORS" -> {"[]", "['E1']", "null"}
      [] key = "API_MODE" -> {"2", "3", "99", "null"}
      [] key = "API_MODE_AVAIL" -> {"[]", "[2]", "[2,3]", "[99]", "null"}
      [] key = "API_WARNINGS" -> {"[]", "['W1']"}
      [] key = "API_AQ_PRESSURE" -> {"1013", "'junk'"}
      [] key = "API_AQ_SENSOR_FW" -> {"'1.2'", "7"}
      [] key = "API_DEVICE_ID" -> {"'d9'"}
      [] key = "API_SYSTEM_NUMBER" -> {"9"}
      [] key = "API_ZONE_NUMBER" -> {"9"}
      [] key = "API_NAME" -> {"'n9'"}
      [] key = "API_META" -> {"{systemNumber:9,zoneNumber:9}"}

\* Envelopes one key larger, keys added in the order of ApiKeys.
Extend(E) ==
    UNION { UNION { { [e |-> x.e @@ (ApiKeys[i] :> v), hi |-> i] :
                      v \in RawValues(ApiKeys[i]) } :
                    i \in (x.hi + 1)..Len(ApiKeys) } :
            x \in E }

RECURSIVE EnvelopesOfSize(_)
EnvelopesOfSize(n) ==
    IF n = 0 THEN {[e |-> EmptyDict, hi |-> 0]} ELSE Extend(EnvelopesOfSize(n - 1))

\* The envelopes with exactly n keys.
Envelopes(n) == {x.e : x \in EnvelopesOfSize(n)}

Targets == {"dev", "aq"}
ModeArgs == {"2", "3", "99"}
SystemObjects == {"sysA", "sysB"}
ZoneObjects == {"zoneA"}

\* An optional key of a payload.
Opt(key, v) == IF v = "absent" THEN EmptyDict ELSE (key :> v)

\* Construction payloads: every combination of the locations of the numbers.
Payloads ==
    { Opt("API_DEVICE_ID", id) @@ Opt("API_META", meta) @@ Opt("API_CONFIG", config)
      @@ Opt("API_SYSTEM_NUMBER", sys) @@ Opt("API_ZONE_NUMBER", zone)
      @@ Opt("API_NAME", name) :
        id \in {"absent", "'a1'"},
        meta \in {"absent", "null", "{}", "{systemNumber:'1'}", "{zoneNumber:'2'}",
                  "{systemNumber:'1',zoneNumber:'2'}"},
        config \in {"absent", "null", "{}", "{systemNumber:3}", "{zoneNumber:4}",
                    "{systemNumber:3,zoneNumber:4}"},
        sys \in {"absent", "5", "'junk'"},
        zone \in {"absent", "6"},
        name \in {"absent", "'n9'"} }

(***************************************************************************)
(* The state machine.                                                      *)
(***************************************************************************)
NoCall == [op |-> "none", target |-> "", data |-> EmptyDict, arg |-> ""]
Called(op, target, data, arg) == [op |-> op, target |-> target, data |-> data, arg |-> arg]

\* The payloads a Device is constructed from: with and without a connection
\* status.
DevicePayloads ==
    { ("API_DEVICE_ID" :> "'d1'") @@ Opt("API_IS_CONNECTED", is_connected) :
        is_connected \in {"absent", "true", "false", "'junk'"} }

InitDev == Device_init("inst1", "ws1", ("API_DEVICE_ID" :> "'d1'")).self
InitAq ==
    AirQuality_init("inst1", "ws1",
                    ("API_DEVICE_ID" :> "'a1'")
                    @@ ("API_META" :> "{systemNumber:'1',zoneNumber:'2'}")).self

\* The Device as its constructor left it, the AirQuality beside it.
Init ==
    /\ \E device_data \in DevicePayloads :
          /\ dev = Device_init("inst1", "ws1", device_data).self
          /\ call = Called("Device", "dev", device_data, "")
    /\ aq = InitAq
    /\ raised = "none"
    /\ ncalls = 0
    /\ nkeys = 0
    /\ result = EmptyDict

\* The outcome r of a call on target t.
Outcome(t, r) ==
    /\ dev' = IF t = "dev" THEN r.self ELSE dev
    /\ aq' = IF t = "aq" THEN r.self ELSE aq
    /\ raised' = r.raised
    /\ ncalls' = ncalls + 1

UpdateData(t, data) ==
    /\ ncalls < MaxCalls
    /\ Outcome(t, IF t = "dev" THEN Device_update_data(dev, data)
                  ELSE AirQuality_update_data(aq, data))
    /\ call' = Called("update_data", t, data, "")
    /\ nkeys' = nkeys + Cardinality(DOMAIN data)
    /\ result' = EmptyDict

SetMode(t, mode) ==
    /\ ncalls < MaxCalls
    /\ Outcome(t, set_mode(IF t = "dev" THEN dev ELSE aq, mode))
    /\ call' = Called("set_mode", t, EmptyDict, mode)
    /\ UNCHANGED nkeys
    /\ result' = EmptyDict

SetAirQuality ==
    /\ ncalls < MaxCalls
    /\ Outcome("dev", set_air_quality(dev, "aq"))
    /\ call' = Called("set_air_quality", "dev", EmptyDict, "aq")
    /\ UNCHANGED nkeys
    /\ result' = EmptyDict

SetParam ==
    /\ ncalls < MaxCalls
    /\ Outcome("aq", set_param(aq, "param", EmptyDict))
    /\ call' = Called("set_param", "aq", EmptyDict, "param")
    /\ UNCHANGED nkeys
    /\ result' = EmptyDict

AddSystem(system) ==
    /\ ncalls < MaxCalls
    /\ Outcome("aq", add_system(aq, system))
    /\ call' = Called("add_system", "aq", EmptyDict, system)
    /\ UNCHANGED nkeys
    /\ result' = EmptyDict

AddZone(zone) ==
    /\ ncalls < MaxCalls
    /\ Outcome("aq", add_zone(aq, zone))
    /\ call' = Called("add_zone", "aq", EmptyDict, zone)
    /\ UNCHANGED nkeys
    /\ result' = EmptyDict

\* data() builds a new mapping and leaves the object as it is.
Data(t) ==
    /\ ncalls < MaxCalls
    /\ Outcome(t, Ok(IF t = "dev" THEN dev ELSE aq))
    /\ call' = Called("data", t, EmptyDict, "")
    /\ nkeys' = nkeys
    /\ result' = IF t = "dev" THEN Device_data(dev, aq) ELSE AirQuality_data(aq, aq)

GetAqStatus(t) ==
    /\ ncalls < MaxCalls
    /\ Outcome(t, Raise(IF t = "dev" THEN dev ELSE aq,
                        get_aq_status(IF t = "dev" THEN dev ELSE aq).raised))
    /\ call' = Called("get_aq_status", t, EmptyDict, "")
    /\ UNCHANGED nkeys
    /\ result' = EmptyDict

Next ==
    \/ /\ ncalls < MaxCalls
       /\ \E t \in Targets : \E n \in 0..(MaxKeys - nkeys) :
             \E data \in Envelopes(n) : UpdateData(t, data)
    \/ \E t \in Targets : \E mode \in ModeArgs : SetMode(t, mode)
    \/ SetAirQuality
    \/ SetParam
    \/ \E system \in SystemObjects : AddSystem(system)
    \/ \E zone \in ZoneObjects : AddZone(zone)
    \/ \E t \in Targets : Data(t)
    \/ \E t \in Targets : GetAqStatus(t)

Spec == Init /\ [][Next]_vars

(***************************************************************************)
(* Construction of an AirQuality from a payload, on its own.               *)
(***************************************************************************)
\* No object yet, or none because the constructor raised.
NoObject == [id |-> "", system_number |-> None, zone_number |-> None,
             name |-> <<>>]

InitNew ==
    /\ dev = InitDev
    /\ aq = NoObject
    /\ raised = "none"
    /\ call = NoCall
    /\ ncalls = 0
    /\ nkeys = 0
    /\ result = EmptyDict

NewAirQuality(device_data) ==
    /\ call.op = "none"
    /\ LET r == AirQuality_init("inst1", "ws1", device_data)
       IN  /\ aq' = IF r.raised = "none" THEN r.self ELSE NoObject
           /\ raised' = r.raised
    /\ call' = Called("AirQuality", "aq", device_data, "")
    /\ ncalls' = ncalls + 1
    /\ UNCHANGED <<dev, nkeys, result>>

NextNew == \E device_data \in Payloads : NewAirQuality(device_data)

SpecNew == InitNew /\ [][NextNew]_vars

(***************************************************************************)
(* Vocabulary of the properties.                                           *)
(***************************************************************************)
Range(seq) == {seq[i] : i \in 1..Len(seq)}

Object(t) == IF t = "dev" THEN dev ELSE aq
ObjectAfter(t) == IF t = "dev" THEN dev' ELSE aq'

\* The envelope key that feeds each tracked attribute.
DeviceAttrKey ==
    [is_connected |-> "API_IS_CONNECTED", ws_connected |-> "API_WS_CONNECTED",
     aq_active |-> "API_AQ_ACTIVE", aq_pm_1 |-> "API_AQ_PM_1",
     aq_pm_2p5 |-> "API_AQ_PM_2P5", aq_pm_10 |-> "API_AQ_PM_10",
     aq_co2 |-> "API_AQ_CO2", aq_tvoc |-> "API_AQ_TVOC",
     aq_humidity |-> "API_AQ_HUMIDITY", aq_temp |-> "API_AQ_TEMP",
     aq_present |-> "API_AQ_PRESENT", aq_quality |-> "API_AQ_QUALITY",
     aq_score |-> "API_AQ_SCORE", auto_mode |-> "API_AUTO_MODE",
     double_set_point |-> "API_DOUBLE_SET_POINT",
     dual_sp_conf |-> "API_DUAL_SP_CONF", errors |-> "API_ERRORS",
     mode |-> "API_MODE", modes |-> "API_MODE_AVAIL",
     simulator_mode |-> "API_SIMULATOR_MODE", warnings |-> "API_WARNINGS"]

AirQualityAttrKey ==
    [aq_vent_active |-> "API_AQ_VENT_ACTIVE", aq_pressure |-> "API_AQ_PRESSURE",
     aq_sensor_fw |-> "API_AQ_SENSOR_FW"]

AttrKey == DeviceAttrKey @@ AirQualityAttrKey

TrackedAttrs(t) ==
    IF t = "dev" THEN DOMAIN DeviceAttrKey ELSE DOMAIN AttrKey

\* What a tracked attribute holds once the value raw has been applied to it,
\* as a one-element set; {} when raw is absent, null or does not parse.
Wanted(attr, raw) ==
    CASE attr \in {"is_connected", "ws_connected"} ->
            IF parse_bool(raw) = None THEN None ELSE Some(Val(parse_bool(raw)))
      [] attr \in {"aq_active", "aq_present", "double_set_point", "dual_sp_conf",
                   "simulator_mode", "aq_vent_active"} ->
            IF parse_bool(raw) = None THEN None ELSE Some(parse_bool(raw))
      [] attr \in {"aq_pm_1", "aq_pm_2p5", "aq_pm_10", "aq_co2", "aq_tvoc",
                   "aq_humidity"} ->
            IF parse_int(raw) = None THEN None ELSE Some(parse_int(raw))
      [] attr = "aq_temp" ->
            IF raw \notin DOMAIN ObjectFields THEN None
            ELSE IF parse_float(get(ObjectFields[raw], "API_AQ_TEMP_CELSIUS")) = None
            THEN None
            ELSE Some(parse_float(get(ObjectFields[raw], "API_AQ_TEMP_CELSIUS")))
      [] attr \in {"aq_quality", "aq_score", "aq_sensor_fw"} ->
            IF parse_str(raw) = None THEN None ELSE Some(parse_str(raw))
      [] attr \in {"auto_mode", "mode"} ->
            IF OperationMode(raw).raised # "none" THEN None
            ELSE Some(OperationMode(raw).value)
      [] attr \in {"errors", "warnings"} ->
            IF raw \notin DOMAIN ListItems THEN None ELSE Some(ListItems[raw])
      [] attr = "modes" ->
            IF raw \notin DOMAIN ListItems THEN None
            ELSE IF convert_modes(ListItems[raw], <<>>).raised # "none" THEN None
            ELSE Some(convert_modes(ListItems[raw], <<>>).value)
      [] attr = "aq_pressure" ->
            IF raw = "null" THEN None ELSE Some(Some(raw))

(***************************************************************************)
(* C1  Field stickiness.                                                   *)
(***************************************************************************)
\* C1: an update_data call leaves every tracked attribute whose key is
\* absent from the envelope, or present with a value that parses to absent
\* (a temperature object without a parsable Celsius member included), at
\* the value it had before the call.
C1_FieldStickiness ==
    [][call'.op = "update_data" =>
         \A attr \in TrackedAttrs(call'.target) :
            Wanted(attr, get(call'.data, AttrKey[attr])) = None
               => ObjectAfter(call'.target)[attr] = Object(call'.target)[attr]]_vars

\* C1, the part the code keeps: a key that is absent or null leaves its
\* attribute alone.
C1_AbsentKeySticky ==
    [][call'.op = "update_data" =>
         \A attr \in TrackedAttrs(call'.target) :
            get(call'.data, AttrKey[attr]) = "null"
               => ObjectAfter(call'.target)[attr] = Object(call'.target)[attr]]_vars

(***************************************************************************)
(* C2  Mode membership.                                                    *)
(***************************************************************************)
\* C2: in every reachable state a mode that is set is one of the modes.
C2_ModeInModes ==
    \A t \in Targets : Object(t).mode # None => Val(Object(t).mode) \in Range(Object(t).modes)

(***************************************************************************)
(* C3  Error containment.                                                  *)
(***************************************************************************)
\* C3: update_data surfaces no error, and every well-formed field of the
\* envelope has been applied when it returns, whatever else the envelope holds.
C3_ErrorContainment ==
    call.op = "update_data" =>
        /\ raised = "none"
        /\ \A attr \in TrackedAttrs(call.target) :
              LET wanted == Wanted(attr, get(call.data, AttrKey[attr]))
              IN  (wanted # None /\ ~(attr = "modes" /\ wanted = Some(<<>>)))
                     => Object(call.target)[attr] = Val(wanted)

(***************************************************************************)
(* C4  Delegation.                                                         *)
(***************************************************************************)
\* C4, the accessors that read an attribute: with an AirQuality attached,
\* each returns what the AirQuality holds, whatever the Device holds itself.
C4_AttributeAccessorsDelegate ==
    dev.air_quality # None =>
        /\ get_aq_active(dev, aq) = Returned(aq.aq_active)
        /\ get_aq_quality(dev, aq) = Returned(aq.aq_quality)
        /\ get_aq_score(dev, aq) = Returned(aq.aq_score)
        /\ get_aq_pm_1(dev, aq) = Returned(aq.aq_pm_1)
        /\ get_aq_pm_2p5(dev, aq) = Returned(aq.aq_pm_2p5)
        /\ get_aq_pm_10(dev, aq) = Returned(aq.aq_pm_10)
        /\ get_aq_co2(dev, aq) = Returned(aq.aq_co2)
        /\ get_aq_tvoc(dev, aq) = Returned(aq.aq_tvoc)
        /\ get_aq_temp(dev, aq) = Returned(aq.aq_temp)
        /\ get_aq_humidity(dev, aq) = Returned(aq.aq_humidity)
        /\ get_aq_present(dev, aq) = Returned(aq.aq_present)

\* C4: with an AirQuality attached, every get_aq_* accessor of the Device,
\* get_aq_status among them, returns a value, and that value is the one the
\* attached AirQuality holds.
C4_Delegation ==
    dev.air_quality # None =>
        /\ C4_AttributeAccessorsDelegate
        /\ get_aq_status(dev).raised = "none"

\* C4, second part: attaching the AirQuality changes no other attribute of
\* the Device: its own air-quality values stay as they were.
C4_AttachmentKeepsLocals ==
    [][call'.op = "set_air_quality" =>
         /\ dev' = [dev EXCEPT !.air_quality = Some("aq")]
         /\ aq' = aq]_vars

(***************************************************************************)
(* C5  Mode guard.                                                         *)
(***************************************************************************)
\* C5: set_mode with an operating mode surfaces no exception; a mode that
\* is not one of modes leaves the object as it was, a mode that is one of
\* modes becomes the mode and nothing else changes.
C5_ModeGuard ==
    [][(call'.op = "set_mode" /\ IntLiteral[call'.arg] \in OperationModes) =>
         LET t == call'.target
             m == IntLiteral[call'.arg]
         IN  /\ raised' = "none"
             /\ ObjectAfter(t) = IF m \in Range(Object(t).modes)
                                 THEN [Object(t) EXCEPT !.mode = Some(m)]
                                 ELSE Object(t)
             /\ \A u \in Targets \ {t} : ObjectAfter(u) = Object(u)]_vars

\* A mode of the list has been accepted by set_mode on a Device whose mode
\* was unset (the only key delivered so far was the list of modes).
C5_Witness ==
    /\ call.op = "set_mode" /\ call.target = "dev" /\ call.arg = "3"
    /\ nkeys = 1
    /\ dev.modes = <<2, 3>>
    /\ dev.mode = Some(3)

(***************************************************************************)
(* C6  Idempotence of update_data.                                         *)
(***************************************************************************)
\* C6: in the state an update_data call has left, applying the same
\* envelope to the same object once more gives the same object and the same
\* outcome: twice is the same as once.
C6_Idempotence ==
    call.op = "update_data" =>
        LET again == IF call.target = "dev"
                     THEN Device_update_data(dev, call.data)
                     ELSE AirQuality_update_data(aq, call.data)
        IN  /\ again.self = Object(call.target)
            /\ again.raised = raised

\* An envelope with an error list and a mode has changed the AirQuality.
C6_Witness ==
    /\ call.op = "update_data" /\ call.target = "aq"
    /\ DOMAIN call.data = {"API_ERRORS", "API_MODE"}
    /\ aq.errors = <<"'E1'">>
    /\ aq.mode = Some(3)

(***************************************************************************)
(* C7  Replacement of errors and warnings.                                 *)
(***************************************************************************)
\* C7: an update_data call whose envelope carries the errors (warnings)
\* key replaces the list by the envelope's, an empty one included; a call
\* without the key leaves the list alone; after a call carrying an empty
\* errors and an empty warnings list get_problems is false.
C7_ListsReplaced ==
    [][call'.op = "update_data" =>
         LET t == call'.target
             errors == get(call'.data, "API_ERRORS")
             warnings == get(call'.data, "API_WARNINGS")
         IN  /\ errors # "null" => ObjectAfter(t).errors = ListItems[errors]
             /\ "API_ERRORS" \notin DOMAIN call'.data
                   => ObjectAfter(t).errors = Object(t).errors
             /\ warnings # "null" => ObjectAfter(t).warnings = ListItems[warnings]
             /\ "API_WARNINGS" \notin DOMAIN call'.data
                   => ObjectAfter(t).warnings = Object(t).warnings
             /\ (errors = "[]" /\ warnings = "[]") => ~get_problems(ObjectAfter(t))]_vars

\* C7 for the calls that return: the replacement itself is as stated.
C7_ListsReplacedOnReturn ==
    [][(call'.op = "update_data" /\ raised' = "none") =>
         LET t == call'.target
             errors == get(call'.data, "API_ERRORS")
             warnings == get(call'.data, "API_WARNINGS")
         IN  /\ errors # "null" => ObjectAfter(t).errors = ListItems[errors]
             /\ "API_ERRORS" \notin DOMAIN call'.data
                   => ObjectAfter(t).errors = Object(t).errors
             /\ warnings # "null" => ObjectAfter(t).warnings = ListItems[warnings]
             /\ "API_WARNINGS" \notin DOMAIN call'.data
                   => ObjectAfter(t).warnings = Object(t).warnings
             /\ (errors = "[]" /\ warnings = "[]") => ~get_problems(ObjectAfter(t))]_vars

SubObject(payload, key) ==
    IF key \in DOMAIN payload /\ payload[key] \in DOMAIN ObjectFields
    THEN ObjectFields[payload[key]] ELSE EmptyDict

\* The location that wins: meta if it has the system number, else config if
\* it has the system number, else the payload itself.
Winner(payload) ==
    CASE "API_SYSTEM_NUMBER" \in DOMAIN SubObject(payload, "API_META") ->
            SubObject(payload, "API_META")
      [] "API_SYSTEM_NUMBER" \in DOMAIN SubObject(payload, "API_CONFIG") ->
            SubObject(payload, "API_CONFIG")
      [] OTHER -> payload

\* C9: a constructed AirQuality has both numbers from the location that
\* wins, and construction fails when that location lacks either number.
C9_NumbersFromWinner ==
    call.op = "AirQuality" =>
        LET win == Winner(call.data)
        IN  /\ raised = "none" =>
                 /\ {"API_SYSTEM_NUMBER", "API_ZONE_NUMBER"} \subseteq DOMAIN win
                 /\ aq.system_number = int(win["API_SYSTEM_NUMBER"]).value
                 /\ aq.zone_number = int(win["API_ZONE_NUMBER"]).value
            /\ ~({"API_SYSTEM_NUMBER", "API_ZONE_NUMBER"} \subseteq DOMAIN win)
                 => (raised # "none" /\ aq = NoObject)

\* The config sub-object has won over a null meta and over the numbers of
\* the payload itself.
C9_Witness ==
    /\ call.op = "AirQuality" /\ raised = "none"
    /\ get(call.data, "API_META") = "null" /\ "API_META" \in DOMAIN call.data
    /\ get(call.data, "API_SYSTEM_NUMBER") = "5"
    /\ get(call.data, "API_ZONE_NUMBER") = "6"
    /\ aq.system_number = Some(3) /\ aq.zone_number = Some(4)

(***************************************************************************)
(* C10  Identity is never reassigned.                                      *)
(***************************************************************************)
\* C10: whatever has been called since construction, the id, installation
\* id and webserver id of both objects, and the system and zone number of
\* the AirQuality, are those construction gave them.
C10_IdentityImmutable ==
    /\ dev.id = InitDev.id
    /\ dev.installation_id = InitDev.installation_id
    /\ dev.webserver_id = InitDev.webserver_id
    /\ aq.id = InitAq.id
    /\ aq.installation_id = InitAq.installation_id
    /\ aq.webserver_id = InitAq.webserver_id
    /\ aq.system_number = InitAq.system_number
    /\ aq.zone_number = InitAq.zone_number

\* The AirQuality has been delivered another device id and another system
\* number in one envelope.
C10_Witness ==
    /\ call.op = "update_data" /\ call.target = "aq" /\ raised = "none"
    /\ call.data = ("API_DEVICE_ID" :> "'d9'") @@ ("API_SYSTEM_NUMBER" :> "9")

(***************************************************************************)
(* C11  Derived status.                                                    *)
(***************************************************************************)
\* C11, the derived values: in every state get_available() is is_connected
\* and ws_connected, get_problems() is "errors or warnings is non-empty",
\* and the mapping a data() call returned carries the same two values.
C11_Derived ==
    /\ \A t \in Targets :
          /\ get_available(Object(t))
                = (Object(t).is_connected = TRUE /\ Object(t).ws_connected = TRUE)
          /\ get_problems(Object(t))
                = (Object(t).errors # <<>> \/ Object(t).warnings # <<>>)
    /\ call.op = "data" =>
          /\ result["AZD_AVAILABLE"]
                = (Object(call.target).is_connected = TRUE
                   /\ Object(call.target).ws_connected = TRUE)
          /\ result["AZD_PROBLEMS"]
                = (Object(call.target).errors # <<>>
                   \/ Object(call.target).warnings # <<>>)

\* C11, the flags after construction: only update_data changes is_connected
\* or ws_connected, and it changes those of the object it is called on.
C11_FlagsChangeInUpdateData ==
    \A t \in Targets :
        (ObjectAfter(t).is_connected # Object(t).is_connected
         \/ ObjectAfter(t).ws_connected # Object(t).ws_connected)
            => (call'.op = "update_data" /\ call'.target = t)

\* C11 as stated: the derived values are consistent in every state, both
\* connectivity flags are true after construction, and they change only
\* through update_data.
C11_FlagsStartTrue ==
    /\ dev.is_connected /\ dev.ws_connected /\ aq.is_connected /\ aq.ws_connected
    /\ []C11_Derived
    /\ [][C11_FlagsChangeInUpdateData]_vars

\* C11: the derived values are consistent in every state; after construction
\* ws_connected is true and is_connected is the connection status of the
\* construction payload when that is a boolean, true otherwise; both flags
\* change only through update_data.
C11_DerivedStatusConsistency ==
    /\ dev.ws_connected /\ aq.ws_connected /\ aq.is_connected
    /\ dev.is_connected = (get(call.data, "API_IS_CONNECTED") # "false")
    /\ []C11_Derived
    /\ [][C11_FlagsChangeInUpdateData]_vars

\* A Device constructed as not connected, one envelope with an error later:
\* data() reports it unavailable, with problems.
C11_Witness ==
    /\ call.op = "data" /\ call.target = "dev" /\ raised = "none"
    /\ nkeys = 1
    /\ dev.errors # <<>>
    /\ ~dev.is_connected /\ dev.ws_connected
    /\ result["AZD_AVAILABLE"] = FALSE
    /\ result["AZD_PROBLEMS"] = TRUE

(***************************************************************************)
(* C12  data() omission.                                                   *)
(***************************************************************************)
\* The air-quality keys of Device.data() and the attribute each one shows.
DeviceAqKey ==
    ("AZD_AQ_ACTIVE" :> "aq_active") @@ ("AZD_AQ_QUALITY" :> "aq_quality")
    @@ ("AZD_AQ_SCORE" :> "aq_score") @@ ("AZD_AQ_PM_1" :> "aq_pm_1")
    @@ ("AZD_AQ_PM_2P5" :> "aq_pm_2p5") @@ ("AZD_AQ_PM_10" :> "aq_pm_10")
    @@ ("AZD_AQ_CO2" :> "aq_co2") @@ ("AZD_AQ_TVOC" :> "aq_tvoc")
    @@ ("AZD_AQ_HUMIDITY" :> "aq_humidity") @@ ("AZD_AQ_TEMP" :> "aq_temp")
    @@ ("AZD_AQ_PRESENT" :> "aq_present")

\* Those AirQuality.data() adds.
AirQualityAqKey ==
    ("AZD_AQ_VENT_ACTIVE" :> "aq_vent_active") @@ ("AZD_AQ_PRESSURE" :> "aq_pressure")

AqKey(t) == IF t = "dev" THEN DeviceAqKey ELSE DeviceAqKey @@ AirQualityAqKey

\* The value an air-quality attribute resolves to: the attached AirQuality's
\* when the Device has one, the object's own otherwise.
Resolved(t, attr) ==
    IF t = "dev" /\ dev.air_quality # None THEN aq[attr] ELSE Object(t)[attr]

\* The mapping data() returns in the current state.
DataOf(t) == IF t = "dev" THEN Device_data(dev, aq) ELSE AirQuality_data(aq, aq)

\* In mapping d of object t every air-quality key has a resolved value, and
\* there is no such key at all when every resolved value is absent.
OmitsAbsent(t, d) ==
    /\ \A k \in DOMAIN AqKey(t) :
          k \in DOMAIN d => Resolved(t, AqKey(t)[k]) # None
    /\ (\A k \in DOMAIN AqKey(t) : Resolved(t, AqKey(t)[k]) = None)
          => DOMAIN d \cap DOMAIN AqKey(t) = {}

\* C12: while every air-quality value of a Device is absent, its own and
\* those of an attached AirQuality, the mapping of data() has no air-quality
\* key; an air-quality key is in the mapping only when the value it resolves
\* to is not absent.  Checked on the mapping data() would return in every
\* state and on the one the last data() call did return.
C12_DataOmission ==
    /\ \A t \in Targets : OmitsAbsent(t, DataOf(t))
    /\ call.op = "data" => OmitsAbsent(call.target, result)

\* data() on a Device without AirQuality, after an envelope that carried an
\* error list and no air-quality key: the errors are in the mapping, no
\* air-quality key is.
C12_Witness ==
    /\ call.op = "data" /\ call.target = "dev" /\ raised = "none"
    /\ nkeys = 1
    /\ dev.air_quality = None
    /\ \A k \in DOMAIN DeviceAqKey : dev[DeviceAqKey[k]] = None
    /\ "AZD_ERRORS" \in DOMAIN result
    /\ DOMAIN result \cap DOMAIN DeviceAqKey = {}

(***************************************************************************)
(* C13  get_aq_status.                                                     *)
(***************************************************************************)
\* C13: every call of get_aq_status returns: no exception surfaces from it,
\* on a Device with or without an attached AirQuality.
C13_GetAqStatusReturns ==
    call.op = "get_aq_status" => raised = "none"

=============================================================================
